---------------------------- MODULE Spec2Model ----------------------------
(***************************************************************************)
(* Model of src/ha_converter.py: HAYamlConverter, which rewrites Home      *)
(* Assistant automations from the old key convention (trigger / condition  *)
(* / action, platform) to the new one (triggers / conditions / actions,    *)
(* trigger).                                                               *)
(*                                                                         *)
(* A parsed YAML value is a record [t, v]:                                 *)
(*   t = "map"  v = sequence of <<key, value>> pairs, keys unique, in the  *)
(*              insertion order of the Python dict                         *)
(*   t = "seq"  v = sequence of values                                     *)
(*   t = "str"  v = sequence of one-character strings                      *)
(*   t = "int"  v = the integer                                            *)
(*   t = "null" v = << >>                                                  *)
(* A call that may raise returns [ok, val]: ok = FALSE is a Python         *)
(* exception propagating out of the call.                                  *)
(***************************************************************************)
EXTENDS Integers, Sequences, FiniteSets, TLC

VARIABLES
    changes_log,   \* self.changes_log
    total_stats,   \* self.total_stats
    pc,            \* position of the caller driving the converter
    arg,           \* argument of the call under way
    ret,           \* what the first call returned: [ok, val]
    ret2,          \* what a second call, on the first call's result, returned
    prev,          \* the call before the last one: [some, arg, ret]
    n_calls,       \* number of convert_automation invocations of the last call
    directory,     \* the files of input_dir, sorted by name
    yaml_files,    \* convert_directory: files still to process, in order
    results        \* convert_directory: results, a dict from file name to success

vars == <<changes_log, total_stats, pc, arg, ret, ret2, prev, n_calls,
          directory, yaml_files, results>>

---------------------------------------------------------------------------
(* Bounds of the model *)

\* longest `trigger` list drawn as an input
MaxTriggers == 2
\* longest list of automations drawn as a document
MaxAutomations == 3
\* most files in the directory
MaxFiles == 2

---------------------------------------------------------------------------
(* Values *)

Map(kv) == [t |-> "map", v |-> kv]
List(items) == [t |-> "seq", v |-> items]
Str(chars) == [t |-> "str", v |-> chars]
Num(n) == [t |-> "int", v |-> n]
Null == [t |-> "null", v |-> << >>]

Ok(val) == [ok |-> TRUE, val |-> val]
\* an exception raised by the call
Raised == [ok |-> FALSE, val |-> Null]

\* the literal 'platform' as a Python str
PLATFORM == <<"p", "l", "a", "t", "f", "o", "r", "m">>

\* the default of converted.get('alias', 'Unnamed automation')
UnnamedAutomation ==
    Str(<<"U", "n", "n", "a", "m", "e", "d", " ",
          "a", "u", "t", "o", "m", "a", "t", "i", "o", "n">>)

\* Python `key in d` for a dict d
HasKey(d, k) == \E i \in 1..Len(d.v) : d.v[i][1] = k

\* Python d[key] for a key that is present
Get(d, k) == d.v[CHOOSE i \in 1..Len(d.v) : d.v[i][1] = k][2]

\* Python d.get(key, default)
GetOr(d, k, default) == IF HasKey(d, k) THEN Get(d, k) ELSE default

\* Python d[key] = value: an existing key keeps its place, a new key goes last
DictSet(d, k, val) ==
    IF HasKey(d, k)
    THEN Map([i \in 1..Len(d.v) |-> IF d.v[i][1] = k THEN <<k, val>> ELSE d.v[i]])
    ELSE Map(Append(d.v, <<k, val>>))

\* Python del d[key]
DictDel(d, k) ==
    LET Keep(p) == p[1] # k IN Map(SelectSeq(d.v, Keep))

Keys(d) == {d.v[i][1] : i \in 1..Len(d.v)}

KeyOrder(d) == [i \in 1..Len(d.v) |-> d.v[i][1]]

RECURSIVE NodeEq(_, _)
\* Python ==: dicts compare by key set and values, whatever the key order;
\* lists by length and elements in order
NodeEq(a, b) ==
    /\ a.t = b.t
    /\ CASE a.t = "map" ->
              /\ Keys(a) = Keys(b)
              /\ \A k \in Keys(a) : NodeEq(Get(a, k), Get(b, k))
         [] a.t = "seq" ->
              /\ Len(a.v) = Len(b.v)
              /\ \A i \in 1..Len(a.v) : NodeEq(a.v[i], b.v[i])
         [] OTHER -> a.v = b.v

\* Python `sub in s` for two str: sub occurs in s as a substring
Contains(sub, s) ==
    \E i \in 0..(Len(s) - Len(sub)) :
        \A j \in 1..Len(sub) : s[i + j] = sub[j]

---------------------------------------------------------------------------
(* Shape classifier *)

AutomationKeys ==
    {"trigger", "triggers", "condition", "conditions", "action", "actions", "alias"}

NewKeys == {"triggers", "conditions", "actions"}

OldKeys == {"trigger", "condition", "action"}

\* _is_automation
_is_automation(item) ==
    item.t = "map" /\ \E k \in AutomationKeys : HasKey(item, k)

\* _is_new_syntax
_is_new_syntax(automation) ==
    IF automation.t # "map"
    THEN FALSE
    ELSE LET has_new_keys == \E k \in NewKeys : HasKey(automation, k)
             has_old_keys == \E k \in OldKeys : HasKey(automation, k)
         IN  has_new_keys /\ ~has_old_keys

---------------------------------------------------------------------------
(* Rewrite engine: triggers *)

\* `'platform' in trigger` for one element of the loop: [ok, val], val a BOOLEAN
PlatformIn(trigger) ==
    CASE trigger.t = "map" -> Ok(HasKey(trigger, "platform"))
      [] trigger.t = "str" -> Ok(Contains(PLATFORM, trigger.v))
      [] trigger.t = "seq" ->
             Ok(\E i \in 1..Len(trigger.v) : NodeEq(trigger.v[i], Str(PLATFORM)))
      [] OTHER -> [ok |-> FALSE, val |-> FALSE]   \* TypeError: not iterable

\* a slip: `del converted_trigger['platform']` left out
ConvertTriggerEntryKeepingPlatform(trigger) ==
    LET has == PlatformIn(trigger) IN
    IF ~has.ok THEN Raised
    ELSE IF ~has.val THEN Ok(trigger)
    ELSE IF trigger.t # "map" THEN Raised
    ELSE Ok(DictSet(trigger, "trigger", Get(trigger, "platform")))

\* the body of the loop of _convert_triggers, for one element
ConvertTriggerEntry(trigger) ==
    LET has == PlatformIn(trigger) IN
    IF ~has.ok THEN Raised
    ELSE IF ~has.val THEN Ok(trigger)
    ELSE IF trigger.t # "map" THEN Raised   \* str / list indexed by 'platform'
    ELSE Ok(DictDel(DictSet(trigger, "trigger", Get(trigger, "platform")),
                    "platform"))

\* what `for trigger in triggers` iterates over, after the isinstance(dict) wrap
TriggerItems(triggers) ==
    CASE triggers.t = "map" -> Ok(<<triggers>>)
      [] triggers.t = "seq" -> Ok(triggers.v)
      [] triggers.t = "str" -> Ok([i \in 1..Len(triggers.v) |-> Str(<<triggers.v[i]>>)])
      [] OTHER -> [ok |-> FALSE, val |-> << >>]   \* TypeError: not iterable

\* _convert_triggers
_convert_triggers(triggers) ==
    LET items == TriggerItems(triggers) IN
    IF ~items.ok THEN Raised
    ELSE LET conv == [i \in 1..Len(items.val) |-> ConvertTriggerEntry(items.val[i])]
         IN  IF \E i \in 1..Len(conv) : ~conv[i].ok
             THEN Raised
             ELSE Ok(List([i \in 1..Len(conv) |-> conv[i].val]))

---------------------------------------------------------------------------
(* Rewrite engine: one automation *)

\* the renames are threaded through [ok, d, changes]

\* a slip: `del converted['trigger']` left out
RenameTriggerKeepingOld(st) ==
    IF ~st.ok \/ ~HasKey(st.d, "trigger") THEN st
    ELSE LET new == _convert_triggers(Get(st.d, "trigger")) IN
         IF ~new.ok THEN [st EXCEPT !.ok = FALSE]
         ELSE [ok |-> TRUE,
               d |-> DictSet(st.d, "triggers", new.val),
               changes |-> Append(st.changes, "trigger -> triggers")]

\* convert_automation, `trigger` -> `triggers`
RenameTrigger(st) ==
    IF ~st.ok \/ ~HasKey(st.d, "trigger") THEN st
    ELSE LET new == _convert_triggers(Get(st.d, "trigger")) IN
         IF ~new.ok THEN [st EXCEPT !.ok = FALSE]
         ELSE [ok |-> TRUE,
               d |-> DictDel(DictSet(st.d, "triggers", new.val), "trigger"),
               changes |-> Append(st.changes, "trigger -> triggers")]

\* a slip: the rename is not added to `changes`
RenameConditionUnrecorded(st) ==
    IF ~st.ok \/ ~HasKey(st.d, "condition") THEN st
    ELSE [ok |-> TRUE,
          d |-> DictDel(DictSet(st.d, "conditions", Get(st.d, "condition")), "condition"),
          changes |-> st.changes]

\* convert_automation, `condition` -> `conditions`
RenameCondition(st) ==
    IF ~st.ok \/ ~HasKey(st.d, "condition") THEN st
    ELSE [ok |-> TRUE,
          d |-> DictDel(DictSet(st.d, "conditions", Get(st.d, "condition")), "condition"),
          changes |-> Append(st.changes, "condition -> conditions")]

\* a slip of copy and paste: the value is written back under `condition`
RenameActionToCondition(st) ==
    IF ~st.ok \/ ~HasKey(st.d, "action") THEN st
    ELSE [ok |-> TRUE,
          d |-> DictDel(DictSet(st.d, "condition", Get(st.d, "action")), "action"),
          changes |-> Append(st.changes, "action -> actions")]

\* convert_automation, `action` -> `actions`
RenameAction(st) ==
    IF ~st.ok \/ ~HasKey(st.d, "action") THEN st
    ELSE [ok |-> TRUE,
          d |-> DictDel(DictSet(st.d, "actions", Get(st.d, "action")), "action"),
          changes |-> Append(st.changes, "action -> actions")]

\* the entries of changes_log: mark "converted" is the line that starts with
\* the check mark, "already_new" the line that starts with the white circle
ConvertedEntry(alias, changes) ==
    [mark |-> "converted", alias |-> alias, changes |-> changes]

AlreadyNewEntry(alias) ==
    [mark |-> "already_new", alias |-> alias, changes |-> << >>]

\* convert_automation, called with changes_log = log: [ok, val, log]
convert_automation(automation, log) ==
    LET alias == GetOr(automation, "alias", UnnamedAutomation) IN
    IF _is_new_syntax(automation)
    THEN [ok |-> TRUE, val |-> automation, log |-> Append(log, AlreadyNewEntry(alias))]
    ELSE LET st == RenameAction(RenameCondition(RenameTrigger(
                       [ok |-> TRUE, d |-> automation, changes |-> << >>])))
         IN  IF ~st.ok
             THEN [ok |-> FALSE, val |-> Null, log |-> log]
             ELSE [ok |-> TRUE, val |-> st.d,
                   log |-> IF st.changes # << >>
                           THEN Append(log, ConvertedEntry(alias, st.changes))
                           ELSE log]

---------------------------------------------------------------------------
(* Rewrite engine: documents *)

\* the calls below are threaded through [ok, val, log, calls]: the value returned,
\* changes_log after the call and the number of convert_automation invocations

\* the outcome r = [ok, val, log] of a convert_automation call, counted
Counted(r, calls) == [ok |-> r.ok, val |-> r.val, log |-> r.log, calls |-> calls]

\* a value handed on as it is
Kept(value, log, calls) == [ok |-> TRUE, val |-> value, log |-> log, calls |-> calls]

RECURSIVE _convert_yaml_data(_, _, _)

\* a variant that explores the elements that are no automations
ConvertItemRecursing(item, log, calls) ==
    IF _is_automation(item)
    THEN Counted(convert_automation(item, log), calls + 1)
    ELSE _convert_yaml_data(item, log, calls)

\* _convert_yaml_data, one element of the list comprehension
ConvertItem(item, log, calls) ==
    IF _is_automation(item)
    THEN Counted(convert_automation(item, log), calls + 1)
    ELSE Kept(item, log, calls)

\* a variant that rewrites the value of every key
ConvertEntryOfAnyKey(key, value, log, calls) ==
    _convert_yaml_data(value, log, calls)

\* _convert_yaml_data, one key of the loop over a mapping that is no automation
ConvertEntry(key, value, log, calls) ==
    IF key = "automation"
    THEN _convert_yaml_data(value, log, calls)
    ELSE Kept(value, log, calls)

\* the list built so far with the outcome r of one more element
WithItem(acc, r) ==
    [ok |-> r.ok, val |-> Append(acc.val, r.val), log |-> r.log, calls |-> r.calls]

\* the list comprehension goes on from acc to item; an exception ends it
AddItem(acc, item) ==
    IF ~acc.ok THEN acc ELSE WithItem(acc, ConvertItem(item, acc.log, acc.calls))

\* the list comprehension over items: f[i] is the list after i elements
ConvertItems(items, log, calls) ==
    LET f[i \in 0..Len(items)] ==
            IF i = 0 THEN Kept(<< >>, log, calls) ELSE AddItem(f[i - 1], items[i])
    IN  f[Len(items)]

\* `converted` built so far with converted[key] = the outcome r
WithEntry(acc, key, r) ==
    [ok |-> r.ok, val |-> DictSet(acc.val, key, r.val), log |-> r.log,
     calls |-> r.calls]

\* the loop over data.items() goes on from acc to entry; an exception ends it
AddEntry(acc, entry) ==
    IF ~acc.ok THEN acc
    ELSE WithEntry(acc, entry[1], ConvertEntry(entry[1], entry[2], acc.log, acc.calls))

\* the loop over data.items(): f[i] is `converted` after i keys
ConvertEntries(entries, log, calls) ==
    LET f[i \in 0..Len(entries)] ==
            IF i = 0 THEN Kept(Map(<< >>), log, calls) ELSE AddEntry(f[i - 1], entries[i])
    IN  f[Len(entries)]

\* the list returned by the comprehension, unless it raised
AsList(r) == [r EXCEPT !.val = IF r.ok THEN List(r.val) ELSE Null]

\* the mapping returned by the loop, unless it raised
AsMapping(r) == [r EXCEPT !.val = IF r.ok THEN r.val ELSE Null]

\* _convert_yaml_data
_convert_yaml_data(data, log, calls) ==
    CASE data.t = "seq" -> AsList(ConvertItems(data.v, log, calls))
      [] data.t = "map" ->
             IF _is_automation(data)
             THEN Counted(convert_automation(data, log), calls + 1)
             ELSE AsMapping(ConvertEntries(data.v, log, calls))
      [] OTHER -> Kept(data, log, calls)

---------------------------------------------------------------------------
(* Statistics *)

CountMark(log, mark) == Cardinality({i \in 1..Len(log) : log[i].mark = mark})

\* get_summary_stats
get_summary_stats(log) ==
    [converted |-> CountMark(log, "converted"),
     already_new |-> CountMark(log, "already_new"),
     total |-> Len(log)]

ZeroStats == [converted |-> 0, already_new |-> 0, total |-> 0]

AddStats(a, b) ==
    [converted |-> a.converted + b.converted,
     already_new |-> a.already_new + b.already_new,
     total |-> a.total + b.total]

---------------------------------------------------------------------------
(* Inputs *)

StrState == Str(<<"s", "t", "a", "t", "e">>)
StrSun == Str(<<"s", "u", "n">>)
StrTime == Str(<<"t", "i", "m", "e">>)
StrAB == Str(<<"a", "b">>)

\* trigger entries of the old convention
EntryState == Map(<< <<"platform", StrState>>, <<"entity_id", StrAB>> >>)
EntrySun == Map(<< <<"platform", StrSun>> >>)
\* a trigger entry with no `platform`
EntryNew == Map(<< <<"trigger", StrTime>>, <<"at", Num(7)>> >>)
\* a trigger entry that holds `platform` and `trigger`
EntryBoth == Map(<< <<"trigger", StrTime>>, <<"platform", StrState>> >>)

MappingEntries == {EntryState, EntrySun, EntryNew, EntryBoth}

\* values that are no mapping
OtherEntries ==
    {Num(5), Null, StrAB, Str(PLATFORM), List(<<Str(PLATFORM)>>), List(<<Num(5)>>)}

ListsOf(S, n) == UNION {{List(f) : f \in [1..k -> S]} : k \in 0..n}

\* every `trigger` value drawn
TriggerValues ==
    MappingEntries \cup OtherEntries \cup {Str(<< >>)}
        \cup ListsOf(MappingEntries \cup OtherEntries, MaxTriggers)

\* a few `trigger` values, for the automations that vary in their other keys
FewTriggerValues ==
    {EntryState, EntryBoth, List(<<EntrySun, EntryNew>>), List(<< >>),
     Num(5), StrAB, List(<<EntryState, StrAB>>)}

StrAlias == Str(<<"A">>)
OldCondition == List(<<Map(<< <<"condition", StrState>> >>)>>)
NewConditions == List(<< >>)
OldAction == Map(<< <<"service", StrAB>> >>)
NewActions == List(<<Map(<< <<"action", StrSun>> >>)>>)
NewTriggers == List(<<Map(<< <<"trigger", StrSun>> >>)>>)

\* the value an automation of the inputs holds under each key but `trigger`
ValueOf(k) ==
    CASE k = "alias" -> StrAlias
      [] k = "triggers" -> NewTriggers
      [] k = "condition" -> OldCondition
      [] k = "conditions" -> NewConditions
      [] k = "action" -> OldAction
      [] k = "actions" -> NewActions
      [] OTHER -> Num(1)

InputKeyOrder ==
    <<"id", "alias", "trigger", "triggers", "condition", "conditions",
      "action", "actions">>

\* the mapping with the keys K, in the order of InputKeyOrder, `trigger` holding tv
MappingOf(K, tv) ==
    LET In(k) == k \in K
        ks == SelectSeq(InputKeyOrder, In)
    IN  Map([i \in 1..Len(ks) |->
                <<ks[i], IF ks[i] = "trigger" THEN tv ELSE ValueOf(ks[i])>>])

InputKeys == {InputKeyOrder[i] : i \in 1..Len(InputKeyOrder)}

\* the mappings convert_automation is applied to
AutomationInputs ==
    {MappingOf(K, tv) : K \in SUBSET InputKeys, tv \in FewTriggerValues}
        \cup {MappingOf(K, tv) : K \in {{"trigger"}, {"alias", "trigger", "triggers"}},
                                 tv \in TriggerValues}

---------------------------------------------------------------------------
(* convert_automation, applied to a mapping and then to its own result *)

NoCall == [ok |-> FALSE, val |-> Null]
NoPrev == [some |-> FALSE, arg |-> Null, ret |-> NoCall]

InitIdle ==
    /\ changes_log = << >>
    /\ total_stats = ZeroStats
    /\ ret = NoCall
    /\ ret2 = NoCall
    /\ prev = NoPrev
    /\ n_calls = 0
    /\ directory = << >>
    /\ yaml_files = << >>
    /\ results = Map(<< >>)

InitAuto ==
    /\ InitIdle
    /\ pc = "ready"
    /\ arg \in AutomationInputs

CallConvertAutomation ==
    /\ pc = "ready"
    /\ LET r == convert_automation(arg, changes_log) IN
           /\ ret' = [ok |-> r.ok, val |-> r.val]
           /\ changes_log' = r.log
    /\ n_calls' = n_calls + 1
    /\ pc' = "once"
    /\ UNCHANGED <<total_stats, arg, ret2, prev, directory, yaml_files, results>>

CallConvertAutomationAgain ==
    /\ pc = "once"
    /\ ret.ok
    /\ LET r == convert_automation(ret.val, changes_log) IN
           /\ ret2' = [ok |-> r.ok, val |-> r.val]
           /\ changes_log' = r.log
    /\ n_calls' = n_calls + 1
    /\ pc' = "twice"
    /\ UNCHANGED <<total_stats, arg, ret, prev, directory, yaml_files, results>>

NextAuto == CallConvertAutomation \/ CallConvertAutomationAgain

SpecAuto == InitAuto /\ [][NextAuto]_vars

---------------------------------------------------------------------------
(* Properties of convert_automation *)

\* a `trigger` value that is a mapping or a sequence of mappings
ValidTriggerValue(v) ==
    \/ v.t = "map"
    \/ v.t = "seq" /\ \A i \in 1..Len(v.v) : v.v[i].t = "map"

TriggerIsValid(a) == HasKey(a, "trigger") => ValidTriggerValue(Get(a, "trigger"))

HasOldOrNewKey(a) == \E k \in OldKeys \cup NewKeys : HasKey(a, k)

\* C1: idempotence. For every automation-like mapping whose `trigger`, if present,
\* is a mapping or a sequence of mappings, converting the result of
\* convert_automation again returns a mapping equal to that result.
C1_Idempotent ==
    (pc = "twice" /\ _is_automation(arg) /\ TriggerIsValid(arg))
        => ret2.ok /\ NodeEq(ret2.val, ret.val)

\* the result of a conversion that renamed `trigger` and `condition` was
\* converted again
C1_Witness ==
    /\ pc = "twice"
    /\ _is_automation(arg) /\ TriggerIsValid(arg)
    /\ HasKey(arg, "trigger") /\ HasKey(arg, "condition") /\ HasKey(arg, "alias")
    /\ ~NodeEq(ret.val, arg)
    /\ ret2.ok

\* C2, as stated: every automation-like mapping, one that is automation-like only
\* through `alias` included, is in the new syntax once converted.
C2_AutomationLikeBecomesNew ==
    (pc = "once" /\ _is_automation(arg) /\ ret.ok) => _is_new_syntax(ret.val)

\* C2, amended: every mapping that holds at least one of trigger, triggers,
\* condition, conditions, action, actions is in the new syntax once
\* convert_automation has returned its conversion.
C2_KeyedBecomesNew ==
    (pc = "once" /\ arg.t = "map" /\ HasOldOrNewKey(arg) /\ ret.ok)
        => _is_new_syntax(ret.val)

\* a mapping with old keys next to new ones was converted
C2_Witness ==
    /\ pc = "once"
    /\ HasKey(arg, "trigger") /\ HasKey(arg, "action") /\ HasKey(arg, "conditions")
    /\ ret.ok
    /\ _is_new_syntax(ret.val)

\* the entries of a valid `trigger` value: the mapping itself, or the elements
EntriesOf(v) == IF v.t = "map" THEN <<v>> ELSE v.v

\* o holds the keys of m, `platform` renamed to `trigger` with its value
PlatformRenamed(m, o) ==
    /\ o.t = "map"
    /\ Keys(o) = (Keys(m) \ {"platform"})
                     \cup (IF HasKey(m, "platform") THEN {"trigger"} ELSE {})
    /\ HasKey(m, "platform") => NodeEq(Get(o, "trigger"), Get(m, "platform"))

\* every key of m but `platform` holds in o the value it holds in m
OtherKeysUntouched(m, o) ==
    \A k \in Keys(m) \ {"platform"} : HasKey(o, k) /\ NodeEq(Get(o, k), Get(m, k))

\* as OtherKeysUntouched, but for a `trigger` key of m that the renamed
\* `platform` replaces
OtherKeysUntouchedButReplaced(m, o) ==
    \A k \in Keys(m) \ {"platform"} :
        (k = "trigger" /\ HasKey(m, "platform"))
            \/ (HasKey(o, k) /\ NodeEq(Get(o, k), Get(m, k)))

\* the shape of the result for an automation with a valid `trigger`; replaced:
\* a `trigger` key of an entry may be replaced by the renamed `platform`
TriggersNormalized(a, r, replaced) ==
    /\ r.ok
    /\ ~HasKey(r.val, "trigger")
    /\ HasKey(r.val, "triggers")
    /\ LET in == EntriesOf(Get(a, "trigger"))
           out == Get(r.val, "triggers")
       IN  /\ out.t = "seq"
           /\ Len(out.v) = Len(in)
           /\ \A i \in 1..Len(in) :
                  /\ PlatformRenamed(in[i], out.v[i])
                  /\ IF replaced
                     THEN OtherKeysUntouchedButReplaced(in[i], out.v[i])
                     ELSE OtherKeysUntouched(in[i], out.v[i])

OldTriggerConverted ==
    /\ pc = "once"
    /\ arg.t = "map"
    /\ HasKey(arg, "trigger")
    /\ ValidTriggerValue(Get(arg, "trigger"))

\* C3, as stated: the result has no `trigger`, and `triggers` holds one element
\* per trigger entry, in order, each the entry with `platform` renamed to
\* `trigger` and every other key untouched.
C3_EveryOtherKeyUntouched ==
    OldTriggerConverted => TriggersNormalized(arg, ret, FALSE)

\* C3, amended: as stated, except that a `trigger` key an entry already holds
\* next to `platform` takes the value of `platform`.
C3_TriggersNormalized ==
    OldTriggerConverted => TriggersNormalized(arg, ret, TRUE)

\* a list of two old-convention entries, each with `platform`, was converted
C3_Witness ==
    /\ OldTriggerConverted
    /\ LET tv == Get(arg, "trigger") IN
           /\ tv.t = "seq" /\ Len(tv.v) = 2
           /\ HasKey(tv.v[1], "platform") /\ HasKey(tv.v[2], "platform")
           /\ Keys(tv.v[1]) # {"platform"}
    /\ ret.ok
    /\ Len(Get(ret.val, "triggers").v) = 2

KeyPairs == {<<"trigger", "triggers">>, <<"condition", "conditions">>,
             <<"action", "actions">>}

\* C7: a mapping that holds an old key together with its new counterpart is
\* converted, and the value it held under the new key is still there.
C7_NewValueKept ==
    (pc = "once" /\ arg.t = "map" /\ ret.ok)
        => \A p \in KeyPairs :
               (HasKey(arg, p[1]) /\ HasKey(arg, p[2]))
                   => /\ ~HasKey(ret.val, p[1])
                      /\ HasKey(ret.val, p[2])
                      /\ NodeEq(Get(ret.val, p[2]), Get(arg, p[2]))

---------------------------------------------------------------------------
(* _convert_triggers, applied to one value after another *)

InitTrig ==
    /\ InitIdle
    /\ pc = "ready"
    /\ arg \in TriggerValues

CallConvertTriggers ==
    /\ pc = "ready"
    /\ ret' = _convert_triggers(arg)
    /\ pc' = "called"
    /\ UNCHANGED <<changes_log, total_stats, arg, ret2, prev, n_calls,
                   directory, yaml_files, results>>

\* the caller goes on to the next value
NextTriggerValue ==
    /\ pc = "called"
    /\ prev' = [some |-> TRUE, arg |-> arg, ret |-> ret]
    /\ arg' \in TriggerValues
    /\ ret' = NoCall
    /\ pc' = "ready"
    /\ UNCHANGED <<changes_log, total_stats, ret2, n_calls,
                   directory, yaml_files, results>>

NextTrig == CallConvertTriggers \/ NextTriggerValue

SpecTrig == InitTrig /\ [][NextTrig]_vars

\* a scalar, or a sequence with an element that is no mapping
Malformed(v) == ~ValidTriggerValue(v)

\* the value, or each element that is no mapping, is in the result as it was
PassedThrough(v, r) ==
    /\ r.ok
    /\ IF v.t = "seq"
       THEN /\ r.val.t = "seq"
            /\ Len(r.val.v) = Len(v.v)
            /\ \A i \in 1..Len(v.v) :
                   v.v[i].t # "map" => NodeEq(r.val.v[i], v.v[i])
       ELSE NodeEq(r.val, v)

\* C9: _convert_triggers treats all malformed `trigger` values alike: it fails
\* on each of them, or it passes each of them through unmodified.
C9_SingleChoice ==
    (pc = "called" /\ prev.some /\ Malformed(arg) /\ Malformed(prev.arg))
        => \/ ~ret.ok /\ ~prev.ret.ok
           \/ PassedThrough(arg, ret) /\ PassedThrough(prev.arg, prev.ret)

---------------------------------------------------------------------------
(* _convert_yaml_data, applied to a document with changes_log empty *)

AutoNew ==
    Map(<< <<"alias", Str(<<"N">>)>>, <<"triggers", NewTriggers>>,
           <<"actions", NewActions>> >>)
AutoOld ==
    Map(<< <<"alias", Str(<<"O">>)>>, <<"trigger", EntryState>>,
           <<"condition", OldCondition>>, <<"action", OldAction>> >>)
AutoTrigger == Map(<< <<"trigger", List(<<EntrySun>>)>> >>)
AutoAlias == Map(<< <<"alias", Str(<<"L">>)>>, <<"id", Num(1)>> >>)
AutoMixed ==
    Map(<< <<"triggers", NewTriggers>>, <<"trigger", EntryState>>,
           <<"action", OldAction>> >>)
\* an automation whose `trigger` makes _convert_triggers raise
AutoBad == Map(<< <<"alias", Str(<<"B">>)>>, <<"trigger", Num(5)>> >>)
\* mappings that are no automations
Plain == Map(<< <<"id", Num(1)>> >>)
Nested == Map(<< <<"automation", List(<<AutoTrigger>>)>> >>)

DocElements ==
    {AutoNew, AutoOld, AutoTrigger, AutoAlias, AutoMixed, AutoBad, Plain, Nested, Num(5)}

ListDocuments == ListsOf(DocElements, MaxAutomations)

\* the orders the keys of a configuration mapping come in
ConfigKeyOrders ==
    {<<"name", "automation", "other_key">>, <<"other_key", "automation">>,
     <<"automation", "name">>, <<"name", "other_key">>, <<"other_key", "name", "automation">>}

\* values under a key that is no automation container
OtherValues == {Map(<< <<"trigger", EntryState>> >>), List(<<AutoOld>>)}

ConfigDocuments ==
    {Map([i \in 1..Len(ks) |->
             <<ks[i], CASE ks[i] = "automation" -> av
                        [] ks[i] = "other_key" -> ov
                        [] OTHER -> StrAB>>]) :
        ks \in ConfigKeyOrders, av \in ListDocuments \cup {AutoOld, Num(5)},
        ov \in OtherValues}

Documents == ListDocuments \cup ConfigDocuments \cup DocElements

InitDoc ==
    /\ InitIdle
    /\ pc = "ready"
    /\ arg \in Documents

CallConvertYamlData ==
    /\ pc = "ready"
    /\ LET r == _convert_yaml_data(arg, changes_log, 0) IN
           /\ ret' = [ok |-> r.ok, val |-> r.val]
           /\ changes_log' = r.log
           /\ n_calls' = r.calls
    /\ pc' = "done"
    /\ UNCHANGED <<total_stats, arg, ret2, prev, directory, yaml_files, results>>

NextDoc == CallConvertYamlData

SpecDoc == InitDoc /\ [][NextDoc]_vars

Converted == pc = "done" /\ ret.ok

\* C4: for a top-level mapping that is no automation the output has the same
\* keys in the same order, every value but the one under `automation` is the
\* input value, with no conversion record for it, and the value under
\* `automation` is the rewritten one.
C4_ContainerScoping ==
    (Converted /\ arg.t = "map" /\ ~_is_automation(arg))
        => LET inner == IF HasKey(arg, "automation")
                        THEN _convert_yaml_data(Get(arg, "automation"), << >>, 0)
                        ELSE [ok |-> TRUE, val |-> Null, log |-> << >>, calls |-> 0]
           IN  /\ ret.val.t = "map"
               /\ KeyOrder(ret.val) = KeyOrder(arg)
               /\ \A k \in Keys(arg) \ {"automation"} : Get(ret.val, k) = Get(arg, k)
               /\ HasKey(arg, "automation") => Get(ret.val, "automation") = inner.val
               /\ changes_log = inner.log

\* a configuration with automations under `automation` and an old `trigger`
\* under another key was converted
C4_Witness ==
    /\ Converted
    /\ arg.t = "map" /\ ~_is_automation(arg)
    /\ HasKey(arg, "automation") /\ HasKey(arg, "other_key")
    /\ _is_automation(Get(arg, "other_key"))
    /\ Get(ret.val, "automation") # Get(arg, "automation")
    /\ changes_log # << >>

\* C5: every call of convert_automation appends one entry to changes_log, so
\* the reported total is the number of nodes passed to convert_automation.
C5_OneRecordPerCall ==
    Converted => get_summary_stats(changes_log).total = n_calls

\* the renames of the old keys a holds, in the fixed order
RenamesOf(a) ==
    LET Held(p) == HasKey(a, p[1])
        held == SelectSeq(<< <<"trigger", "trigger -> triggers">>,
                             <<"condition", "condition -> conditions">>,
                             <<"action", "action -> actions">> >>, Held)
    IN  [i \in 1..Len(held) |-> held[i][2]]

HasOldKey(a) == \E k \in OldKeys : HasKey(a, k)

\* the record an automation is to leave; mark "none" where it leaves none
RecordOf(a) ==
    [mark |-> IF HasOldKey(a) THEN "converted"
              ELSE IF _is_new_syntax(a) THEN "already_new" ELSE "none",
     alias |-> GetOr(a, "alias", UnnamedAutomation),
     changes |-> RenamesOf(a)]

RecordsOf(automations) ==
    LET Left(r) == r.mark # "none"
    IN  SelectSeq([i \in 1..Len(automations) |-> RecordOf(automations[i])], Left)

\* C6: after a sequence of automations is converted, the "converted" records
\* are as many as the automations with an old key, the "already new" records
\* as many as those in the new syntax, the records are in input order and
\* each "converted" record lists the renames of the old keys held, in the
\* order trigger, condition, action.
C6_RecordAccuracy ==
    (Converted /\ arg.t = "seq" /\ \A i \in 1..Len(arg.v) : _is_automation(arg.v[i]))
        => /\ changes_log = RecordsOf(arg.v)
           /\ get_summary_stats(changes_log).converted
                  = Cardinality({i \in 1..Len(arg.v) : HasOldKey(arg.v[i])})
           /\ get_summary_stats(changes_log).already_new
                  = Cardinality({i \in 1..Len(arg.v) : _is_new_syntax(arg.v[i])})

\* a list of an automation in the new syntax, one with the three old keys and
\* one with `trigger` alone was converted
C6_Witness ==
    /\ Converted
    /\ arg.t = "seq" /\ Len(arg.v) = 3
    /\ _is_new_syntax(arg.v[1])
    /\ \A k \in OldKeys : HasKey(arg.v[2], k)
    /\ Keys(arg.v[3]) = {"trigger"}
    /\ get_summary_stats(changes_log) = [converted |-> 2, already_new |-> 1, total |-> 3]
    /\ changes_log[3].changes = <<"trigger -> triggers">>

---------------------------------------------------------------------------
(* convert_file and convert_directory *)

\* convert_file on a file with this content, with changes_log = log and
\* total_stats = total; read_ok: the file opens and parses; write_ok: the output
\* file is written. [success, log, total]
convert_file(content, read_ok, write_ok, log, total) ==
    IF ~read_ok
    THEN [success |-> FALSE, log |-> log, total |-> total]
    ELSE LET r == _convert_yaml_data(content, << >>, 0) IN
         IF ~r.ok
         THEN [success |-> FALSE, log |-> r.log, total |-> total]
         ELSE [success |-> write_ok, log |-> r.log,
               total |-> AddStats(total, get_summary_stats(r.log))]

Suffixes == {"yaml", "yml"}

\* the patterns convert_directory is called with
Patterns == {"*.yaml", "*.yml"}

\* the file matches the glob pattern
Matches(file, pattern) ==
    \/ pattern = "*.yaml" /\ file.suffix = "yaml"
    \/ pattern = "*.yml" /\ file.suffix = "yml"

\* sorted(list(input_dir.glob(pattern)) + list(input_dir.glob("*.yml"))), as
\* indices into the directory, which is sorted by name
YamlFiles(dir, pattern) ==
    LET Copies(i) == (IF Matches(dir[i], pattern) THEN 1 ELSE 0)
                         + (IF Matches(dir[i], "*.yml") THEN 1 ELSE 0)
        f[i \in 0..Len(dir)] ==
            IF i = 0 THEN << >> ELSE f[i - 1] \o [j \in 1..Copies(i) |-> i]
    IN  f[Len(dir)]

FileContents ==
    {List(<<AutoOld, AutoNew>>), List(<<AutoAlias, AutoTrigger>>), List(<<AutoOld, AutoBad>>),
     Map(<< <<"automation", List(<<AutoMixed>>)>>, <<"name", StrAB>> >>)}

Files == [suffix : Suffixes, content : FileContents]

InitDir ==
    /\ changes_log = << >>
    /\ total_stats = ZeroStats
    /\ pc = "idle"
    /\ arg = Null
    /\ ret = NoCall
    /\ ret2 = NoCall
    /\ prev = NoPrev
    /\ n_calls = 0
    /\ directory \in UNION {[1..n -> Files] : n \in 0..MaxFiles}
    /\ yaml_files = << >>
    /\ results = Map(<< >>)

\* convert_directory up to its loop
StartConvertDirectory ==
    /\ pc \in {"idle", "returned"}
    /\ \E pattern \in Patterns :
           /\ yaml_files' = YamlFiles(directory, pattern)
           /\ pc' = IF yaml_files' = << >> THEN "returned" ELSE "loop"
    /\ total_stats' = ZeroStats
    /\ results' = Map(<< >>)
    /\ UNCHANGED <<changes_log, arg, ret, ret2, prev, n_calls, directory>>

\* one round of the loop of convert_directory: convert_file on the next file
ProcessFile ==
    /\ pc = "loop"
    /\ \E read_ok, write_ok \in BOOLEAN :
           LET yaml_file == Head(yaml_files)
               r == convert_file(directory[yaml_file].content, read_ok, write_ok,
                                changes_log, total_stats)
           IN  /\ results' = DictSet(results, yaml_file, r.success)
               /\ changes_log' = r.log
               /\ total_stats' = r.total
    /\ yaml_files' = Tail(yaml_files)
    /\ pc' = IF yaml_files' = << >> THEN "returned" ELSE "loop"
    /\ UNCHANGED <<arg, ret, ret2, prev, n_calls, directory>>

NextDir == StartConvertDirectory \/ ProcessFile

SpecDir == InitDir /\ [][NextDir]_vars

\* get_total_stats
get_total_stats == total_stats

\* the summary stats of converting the file alone
FileStats(file) == get_summary_stats(_convert_yaml_data(file.content, << >>, 0).log)

\* the sum of the stats of the files whose entry in results is True
StatsOfSuccessful ==
    LET f[i \in 0..Len(directory)] ==
            IF i = 0 THEN ZeroStats
            ELSE IF HasKey(results, i) /\ Get(results, i)
                 THEN AddStats(f[i - 1], FileStats(directory[i]))
                 ELSE f[i - 1]
    IN  f[Len(directory)]

\* C10: once convert_directory has returned, the cumulative totals are the sum
\* of the summary stats of the files whose result is True, whatever failed.
C10_TotalsOfSuccessful ==
    pc = "returned" => get_total_stats = StatsOfSuccessful

=============================================================================
